---- MODULE Spec2Model ----
(***************************************************************************)
(* ptonlineres2prpr: converts a "PT" online resource pack (a JSON manifest *)
(* of named asset URLs) into a resource-pack directory: renamed image and  *)
(* audio files, a re-tiled hit-effect sheet, combined hold atlases and an  *)
(* info.yml descriptor.  Model of src/src/main.rs.                         *)
(*                                                                         *)
(* Strings whose characters matter (manifest keys, table names) are        *)
(* sequences of one-character strings; URLs and file names are opaque.     *)
(***************************************************************************)
EXTENDS Integers, Sequences, FiniteSets, TLC

VARIABLES
  pc,               \* position of load_pt_online_respack
  remote,           \* the document the manifest URL serves (environment)
  meta,             \* PTRespackMeta returned by fetch_meta
  parse_todo,       \* res_name_parser: keys of `res` the for loop has not yet yielded
  res_urls,         \* res_name_parser: HashMap<ResType, String>
  dl_todo,          \* download_res: roles of res_urls the for loop has not yet yielded
  downloaded,       \* download_res: the DownloadResult values pushed so far
  to_save,          \* save_res: the DownloadResult values its for loop has not yet reached
  hold_components,  \* save_res: HashMap<ImageResType, Bytes>
  files,            \* the output directory: file name -> contents
  writes,           \* history: the save_file calls made, in order
  err,              \* the Err that ended the run, "" while there is none
  shadow_todo,      \* a second res_name_parser run over the same manifest:
  shadow_urls,      \*   its loop position and its HashMap
  input,            \* argument of the image transform under check
  output            \* its result

vars == << pc, remote, meta, parse_todo, res_urls, dl_todo, downloaded, to_save,
           hold_components, files, writes, err, shadow_todo, shadow_urls,
           input, output >>

-----------------------------------------------------------------------------
(* Bounds of the model. *)

\* manifest entries besides the five hold components
MaxOther == 1
\* letters of a key, counted from its start, whose case varies
MaxUpper == 3
\* manifest entries of the two-run parse
MaxDetEntries == 2
\* width of a hit-effect strip
MaxStripW == 2
\* height of a hit-effect strip
MaxStripH == 61
\* width of an image handed to combine_hold_images
MaxW == 3
\* height of an image handed to combine_hold_images
MaxH == 2

-----------------------------------------------------------------------------
(* str::to_lowercase, on the ASCII letters. *)

UpperAlpha == <<"A", "B", "C", "D", "E", "F", "G", "H", "I", "J", "K", "L", "M",
                "N", "O", "P", "Q", "R", "S", "T", "U", "V", "W", "X", "Y", "Z">>
LowerAlpha == <<"a", "b", "c", "d", "e", "f", "g", "h", "i", "j", "k", "l", "m",
                "n", "o", "p", "q", "r", "s", "t", "u", "v", "w", "x", "y", "z">>

to_lowercase(name) ==
  [i \in 1..Len(name) |->
     IF \E k \in 1..Len(UpperAlpha) : UpperAlpha[k] = name[i]
     THEN LowerAlpha[CHOOSE k \in 1..Len(UpperAlpha) : UpperAlpha[k] = name[i]]
     ELSE name[i]]

-----------------------------------------------------------------------------
(* enum ResType { Image(ImageResType), Audio(AudioResType) } *)

Image(t) == <<"Image", t>>
Audio(t) == <<"Audio", t>>

ImageResType == {"HitFX", "Tap", "TapHL", "HoldEnd", "Hold", "HoldHL", "HoldHead",
                 "HoldHeadHL", "CombinedHold", "CombinedHoldHL", "Drag", "DragHL",
                 "Flick", "FlickHL"}
AudioResType == {"TapHitSound", "DragHitSound", "FlickHitSound"}
ResType == {Image(t) : t \in ImageResType} \cup {Audio(t) : t \in AudioResType}

IMAGE_RES_MAPPINGS ==
  << [names |-> << <<"c", "l", "i", "c", "k", "r", "a", "w">>,
                   <<"c", "l", "i", "c", "k", "r", "a", "w", ".", "p", "n", "g">> >>,
      type |-> "HitFX"],
     [names |-> << <<"t", "a", "p">>,
                   <<"t", "a", "p", ".", "p", "n", "g">> >>,
      type |-> "Tap"],
     [names |-> << <<"t", "a", "p", "h", "l">>,
                   <<"t", "a", "p", "h", "l", ".", "p", "n", "g">> >>,
      type |-> "TapHL"],
     [names |-> << <<"h", "o", "l", "d", "e", "n", "d">>,
                   <<"h", "o", "l", "d", "e", "n", "d", ".", "p", "n", "g">> >>,
      type |-> "HoldEnd"],
     [names |-> << <<"h", "o", "l", "d">>,
                   <<"h", "o", "l", "d", ".", "p", "n", "g">> >>,
      type |-> "Hold"],
     [names |-> << <<"h", "o", "l", "d", "h", "l">>,
                   <<"h", "o", "l", "d", "h", "l", ".", "p", "n", "g">> >>,
      type |-> "HoldHL"],
     [names |-> << <<"h", "o", "l", "d", "h", "e", "a", "d">>,
                   <<"h", "o", "l", "d", "h", "e", "a", "d", ".", "p", "n", "g">> >>,
      type |-> "HoldHead"],
     [names |-> << <<"h", "o", "l", "d", "h", "e", "a", "d", "h", "l">>,
                   <<"h", "o", "l", "d", "h", "e", "a", "d", "h", "l", ".", "p", "n", "g">> >>,
      type |-> "HoldHeadHL"],
     [names |-> << <<"d", "r", "a", "g">>,
                   <<"d", "r", "a", "g", ".", "p", "n", "g">> >>,
      type |-> "Drag"],
     [names |-> << <<"d", "r", "a", "g", "h", "l">>,
                   <<"d", "r", "a", "g", "h", "l", ".", "p", "n", "g">> >>,
      type |-> "DragHL"],
     [names |-> << <<"f", "l", "i", "c", "k">>,
                   <<"f", "l", "i", "c", "k", ".", "p", "n", "g">> >>,
      type |-> "Flick"],
     [names |-> << <<"f", "l", "i", "c", "k", "h", "l">>,
                   <<"f", "l", "i", "c", "k", "h", "l", ".", "p", "n", "g">> >>,
      type |-> "FlickHL"] >>

AUDIO_RES_MAPPINGS ==
  << [names |-> << <<"h", "i", "t", "s", "o", "n", "g", "0">>,
                   <<"h", "i", "t", "s", "o", "n", "g", "0", ".", "o", "g", "g">> >>,
      type |-> "TapHitSound"],
     [names |-> << <<"h", "i", "t", "s", "o", "n", "g", "1">>,
                   <<"h", "i", "t", "s", "o", "n", "g", "1", ".", "o", "g", "g">> >>,
      type |-> "DragHitSound"],
     [names |-> << <<"h", "i", "t", "s", "o", "n", "g", "2">>,
                   <<"h", "i", "t", "s", "o", "n", "g", "2", ".", "o", "g", "g">> >>,
      type |-> "FlickHitSound"] >>

-----------------------------------------------------------------------------
(* Option<T>: None is the empty tuple, Some(v) the one-element tuple. *)

None == << >>
Some(v) == << v >>

(* HashMap::insert: the new value replaces the one the key had. *)
insert(map, k, v) == [x \in DOMAIN map \cup {k} |-> IF x = k THEN v ELSE map[x]]

(* names.contains(&name_lower.as_str()) *)
contains(names, s) == \E i \in 1..Len(names) : names[i] = s

(* MAPPINGS.iter().find(|(names, _)| names.contains(..)): the first entry
   of the table that lists the name. *)
find(table, name_lower) ==
  LET hits == {i \in 1..Len(table) : contains(table[i].names, name_lower)}
  IN  IF hits = {} THEN None
      ELSE Some(table[CHOOSE i \in hits : \A j \in hits : i <= j])

(* Mutant of res_name_parser_body: the key is compared as written, not in
   lower case. *)
res_name_parser_body_case_sensitive(urls, name, url) ==
  LET img  == find(IMAGE_RES_MAPPINGS, name)
      with == IF img # None THEN insert(urls, Image(img[1].type), url) ELSE urls
      aud  == find(AUDIO_RES_MAPPINGS, name)
  IN  IF aud # None THEN insert(with, Audio(aud[1].type), url) ELSE with

(* Body of res_name_parser's for loop, for one (name, url) of `res`. *)
res_name_parser_body(urls, name, url) ==
  LET name_lower == to_lowercase(name)
      img  == find(IMAGE_RES_MAPPINGS, name_lower)
      with == IF img # None THEN insert(urls, Image(img[1].type), url) ELSE urls
      aud  == find(AUDIO_RES_MAPPINGS, name_lower)
  IN  IF aud # None THEN insert(with, Audio(aud[1].type), url) ELSE with

-----------------------------------------------------------------------------
(* Result<T, E> *)

Ok(v)  == [ok |-> TRUE,  val |-> v]
Err(e) == [ok |-> FALSE, val |-> e]

(* Byte buffers.  A buffer is a PNG encoding of a raster image, the YAML
   text of a descriptor, or bytes of any other kind (audio, a broken
   download); Truncated is what a file holds when File::create succeeded and
   write_all did not. *)
PngBytes(img)   == [fmt |-> "png",    body |-> img]
YamlBytes(doc)  == [fmt |-> "yaml",   body |-> doc]
Opaque(id)      == [fmt |-> "opaque", body |-> id]
Truncated       == [fmt |-> "truncated", body |-> ""]

(* A raster image: width, height and the pixel at each (x, y).  A pixel is a
   number standing for its RGBA value; 0 is the all-zero pixel of a fresh
   ImageBuffer, i.e. transparent. *)
Transparent == 0

Coords(w, h) == (0..(w - 1)) \X (0..(h - 1))

ImageBuffer_new(w, h) == [w |-> w, h |-> h, px |-> [p \in Coords(w, h) |-> Transparent]]

(* image::load_from_memory: only PNG bytes decode. *)
load_from_memory(data) ==
  IF data.fmt = "png" THEN Ok(data.body) ELSE Err("DecodeError")

(* PngEncoder::write_image.  Whether the encoder accepts an image without
   pixels is the png crate's choice, so both outcomes are kept. *)
png_encode(img) ==
  IF img.w = 0 \/ img.h = 0
  THEN {Err("EncodeError"), Ok(PngBytes(img))}
  ELSE {Ok(PngBytes(img))}

(* get_pixel / put_pixel panic outside the image. *)
InBounds(img, x, y) == x >= 0 /\ x < img.w /\ y >= 0 /\ y < img.h

(* The effect of a sequence of
       buf.put_pixel(dx, dy, srcs[src].get_pixel(sx, sy))
   calls made in order: Err("panic") if one of them is out of bounds, else
   the buffer in which every pixel holds what the last call to it stored. *)
put_pixels(buf, srcs, calls) ==
  IF \E k \in 1..Len(calls) :
        \/ ~InBounds(srcs[calls[k].src], calls[k].sx, calls[k].sy)
        \/ ~InBounds(buf, calls[k].dx, calls[k].dy)
  THEN Err("panic")
  ELSE Ok([buf EXCEPT !.px =
         [p \in DOMAIN buf.px |->
            LET ks == {k \in 1..Len(calls) : calls[k].dx = p[1] /\ calls[k].dy = p[2]}
            IN  IF ks = {} THEN buf.px[p]
                ELSE LET k == CHOOSE k \in ks : \A j \in ks : j <= k
                     IN  srcs[calls[k].src].px[<<calls[k].sx, calls[k].sy>>]]])

-----------------------------------------------------------------------------
(* hit_fx_convector *)

(* Mutant of hit_fx_calls: the grid is filled six frames to a row. *)
hit_fx_calls_six_columns(img) ==
  LET frame_width  == img.w
      frame_height == img.h \div 30
      per_frame    == frame_height * frame_width
  IN  [k \in 1..(30 * per_frame) |->
         LET i     == (k - 1) \div per_frame
             y     == ((k - 1) % per_frame) \div frame_width
             x     == (k - 1) % frame_width
             old_y == i * frame_height
             new_x == (i % 6) * frame_width
             new_y == (i \div 6) * frame_height
         IN  [src |-> 1, sx |-> x, sy |-> old_y + y,
              dx |-> new_x + x, dy |-> new_y + y]]

(* The put_pixel calls of the three nested loops (i, y, x), in order. *)
hit_fx_calls(img) ==
  LET frame_width  == img.w
      frame_height == img.h \div 30
      per_frame    == frame_height * frame_width
  IN  [k \in 1..(30 * per_frame) |->
         LET i     == (k - 1) \div per_frame
             y     == ((k - 1) % per_frame) \div frame_width
             x     == (k - 1) % frame_width
             old_y == i * frame_height
             new_x == (i % 5) * frame_width
             new_y == (i \div 5) * frame_height
         IN  [src |-> 1, sx |-> x, sy |-> old_y + y,
              dx |-> new_x + x, dy |-> new_y + y]]

(* new_image when the loops are done *)
hit_fx_image(img) ==
  LET frame_width  == img.w
      frame_height == img.h \div 30
      new_width    == frame_width * 5
      new_height   == frame_height * 6
  IN  put_pixels(ImageBuffer_new(new_width, new_height), <<img>>, hit_fx_calls(img))

(* The possible results of the function. *)
hit_fx_convector(image_data) ==
  LET dec == load_from_memory(image_data)
  IN  IF ~dec.ok THEN {dec}
      ELSE LET new_image == hit_fx_image(dec.val)
           IN  IF ~new_image.ok THEN {new_image} ELSE png_encode(new_image.val)

-----------------------------------------------------------------------------
(* combine_hold_images *)

(* One of its three copy loops: the put_pixel calls for source image s. *)
copy_calls(s, img, x_offset, y_offset) ==
  [k \in 1..(img.w * img.h) |->
     LET y == (k - 1) \div img.w
         x == (k - 1) % img.w
     IN  [src |-> s, sx |-> x, sy |-> y, dx |-> x_offset + x, dy |-> y_offset + y]]

combine_width(end_img, hold_img, head_img) ==
  LET m == IF end_img.w >= hold_img.w THEN end_img.w ELSE hold_img.w
  IN  IF m >= head_img.w THEN m ELSE head_img.w

(* Mutant of combine_calls: the images are not centred. *)
combine_calls_left_aligned(end_img, hold_img, head_img) ==
  copy_calls(1, end_img, 0, 0)
    \o copy_calls(2, hold_img, 0, end_img.h)
    \o copy_calls(3, head_img, 0, end_img.h + hold_img.h)

combine_calls(end_img, hold_img, head_img) ==
  LET width == combine_width(end_img, hold_img, head_img)
  IN  copy_calls(1, end_img, (width - end_img.w) \div 2, 0)
      \o copy_calls(2, hold_img, (width - hold_img.w) \div 2, end_img.h)
      \o copy_calls(3, head_img, (width - head_img.w) \div 2, end_img.h + hold_img.h)

(* `combined` when the loops are done *)
combine_image(end_img, hold_img, head_img) ==
  LET width  == combine_width(end_img, hold_img, head_img)
      height == end_img.h + hold_img.h + head_img.h
  IN  put_pixels(ImageBuffer_new(width, height), <<end_img, hold_img, head_img>>,
                 combine_calls(end_img, hold_img, head_img))

(* The possible results of the function. *)
combine_hold_images(holdend, hold, holdhead) ==
  LET e == load_from_memory(holdend)
      b == load_from_memory(hold)
      h == load_from_memory(holdhead)
  IN  IF ~e.ok THEN {e}
      ELSE IF ~b.ok THEN {b}
      ELSE IF ~h.ok THEN {h}
      ELSE LET combined == combine_image(e.val, b.val, h.val)
           IN  IF ~combined.ok THEN {combined} ELSE png_encode(combined.val)

-----------------------------------------------------------------------------
(* A w x h image all of whose pixels differ: pixel (x, y) is base + 1 + y*w + x. *)
TestImage(w, h, base) ==
  [w |-> w, h |-> h, px |-> [p \in Coords(w, h) |-> base + 1 + p[2] * w + p[1]]]

-----------------------------------------------------------------------------
(* get_filename *)

(* Mutant of get_filename: a tap image keeps its source name. *)
get_filename_tap_unrenamed(res_type) ==
  CASE res_type = Image("HitFX")          -> "hit_fx.png"
    [] res_type = Image("Tap")            -> "tap.png"
    [] res_type = Image("TapHL")          -> "taphl.png"
    [] res_type = Image("Drag")           -> "drag.png"
    [] res_type = Image("DragHL")         -> "drag_mh.png"
    [] res_type = Image("Flick")          -> "flick.png"
    [] res_type = Image("FlickHL")        -> "flick_mh.png"
    [] res_type = Image("CombinedHold")   -> "hold.png"
    [] res_type = Image("CombinedHoldHL") -> "hold_mh.png"
    [] res_type = Audio("TapHitSound")    -> "click.ogg"
    [] res_type = Audio("DragHitSound")   -> "drag.ogg"
    [] res_type = Audio("FlickHitSound")  -> "flick.ogg"
    [] OTHER                              -> ""

get_filename(res_type) ==
  CASE res_type = Image("HitFX")          -> "hit_fx.png"
    [] res_type = Image("Tap")            -> "click.png"
    [] res_type = Image("TapHL")          -> "click_mh.png"
    [] res_type = Image("Drag")           -> "drag.png"
    [] res_type = Image("DragHL")         -> "drag_mh.png"
    [] res_type = Image("Flick")          -> "flick.png"
    [] res_type = Image("FlickHL")        -> "flick_mh.png"
    [] res_type = Image("CombinedHold")   -> "hold.png"
    [] res_type = Image("CombinedHoldHL") -> "hold_mh.png"
    [] res_type = Audio("TapHitSound")    -> "click.ogg"
    [] res_type = Audio("DragHitSound")   -> "drag.ogg"
    [] res_type = Audio("FlickHitSound")  -> "flick.ogg"
    [] OTHER                              -> ""

-----------------------------------------------------------------------------
(* generate_respack_info and the descriptor *)

contains_key(map, k) == k \in DOMAIN map

get_image_dimensions(data) ==
  LET img == load_from_memory(data)
  IN  IF img.ok THEN Ok(<<img.val.w, img.val.h>>) ELSE img

(* Mutant of hold_atlas: the atlas is declared only with all three
   components of hold.png. *)
hold_atlas_with_body(hold_components_) ==
  IF /\ contains_key(hold_components_, "HoldEnd")
     /\ contains_key(hold_components_, "Hold")
     /\ contains_key(hold_components_, "HoldHead")
  THEN LET end  == get_image_dimensions(hold_components_["HoldEnd"])
           head == get_image_dimensions(hold_components_["HoldHead"])
       IN  IF ~end.ok THEN end
           ELSE IF ~head.ok THEN head
           ELSE Ok(Some(<<end.val[2], head.val[2]>>))
  ELSE Ok(None)

hold_atlas(hold_components_) ==
  IF contains_key(hold_components_, "HoldEnd") /\ contains_key(hold_components_, "HoldHead")
  THEN LET end  == get_image_dimensions(hold_components_["HoldEnd"])
           head == get_image_dimensions(hold_components_["HoldHead"])
       IN  IF ~end.ok THEN end
           ELSE IF ~head.ok THEN head
           ELSE Ok(Some(<<end.val[2], head.val[2]>>))
  ELSE Ok(None)

hold_atlas_mh(hold_components_) ==
  IF contains_key(hold_components_, "HoldEnd") /\ contains_key(hold_components_, "HoldHeadHL")
  THEN LET end     == get_image_dimensions(hold_components_["HoldEnd"])
           head_hl == get_image_dimensions(hold_components_["HoldHeadHL"])
       IN  IF ~end.ok THEN end
           ELSE IF ~head_hl.ok THEN head_hl
           ELSE Ok(Some(<<end.val[2], head_hl.val[2]>>))
  ELSE Ok(None)

hit_fx(hold_components_) ==
  IF contains_key(hold_components_, "HitFX") THEN Some(<<5, 6>>) ELSE None

generate_respack_info(meta_, hold_components_) ==
  LET atlas    == hold_atlas(hold_components_)
      atlas_mh == hold_atlas_mh(hold_components_)
  IN  IF ~atlas.ok THEN atlas
      ELSE IF ~atlas_mh.ok THEN atlas_mh
      ELSE Ok([name          |-> meta_.name,
               author        |-> meta_.author,
               hit_fx        |-> hit_fx(hold_components_),
               hold_atlas    |-> atlas.val,
               hold_atlas_mh |-> atlas_mh.val,
               description   |-> ""])

(* serde_yaml::to_string of a ResPackInfo: its fields in declaration order
   under their serde names, a None field left out. *)
to_yaml(info) ==
  << <<"name", info.name>>, <<"author", info.author>> >>
    \o (IF info.hit_fx = None THEN << >> ELSE << <<"hitFx", info.hit_fx[1]>> >>)
    \o (IF info.hold_atlas = None THEN << >> ELSE << <<"holdAtlas", info.hold_atlas[1]>> >>)
    \o (IF info.hold_atlas_mh = None THEN << >>
        ELSE << <<"holdAtlasMH", info.hold_atlas_mh[1]>> >>)
    \o << <<"description", info.description>> >>

-----------------------------------------------------------------------------
(* The environment: the manifests a server may serve and what each asset
   URL returns. *)

HoldEntries ==
  { [name |-> <<"h", "o", "l", "d", "e", "n", "d">>,                url |-> "u/holdend"],
    [name |-> <<"h", "o", "l", "d">>,                               url |-> "u/hold"],
    [name |-> <<"h", "o", "l", "d", "h", "e", "a", "d">>,           url |-> "u/holdhead"],
    [name |-> <<"h", "o", "l", "d", "h", "l">>,                     url |-> "u/holdhl"],
    [name |-> <<"h", "o", "l", "d", "h", "e", "a", "d", "h", "l">>, url |-> "u/holdheadhl"] }

OtherEntries ==
  { [name |-> <<"t", "a", "p">>,                                    url |-> "u/tap"],
    [name |-> <<"T", "a", "p", ".", "P", "N", "G">>,                url |-> "u/tap2"],
    [name |-> <<"T", "a", "p", "H", "L", ".", "p", "n", "g">>,      url |-> "u/taphl"],
    [name |-> <<"d", "r", "a", "g">>,                               url |-> "u/drag"],
    [name |-> <<"D", "R", "A", "G", "H", "L">>,                     url |-> "u/draghl"],
    [name |-> <<"f", "l", "i", "c", "k", ".", "p", "n", "g">>,      url |-> "u/flick"],
    [name |-> <<"F", "l", "i", "c", "k", "H", "L">>,                url |-> "u/flickhl"],
    [name |-> <<"h", "i", "t", "s", "o", "n", "g", "0">>,           url |-> "u/hitsong0"],
    [name |-> <<"H", "i", "t", "S", "o", "n", "g", "1", ".", "o", "g", "g">>,
                                                                    url |-> "u/hitsong1"],
    [name |-> <<"h", "i", "t", "s", "o", "n", "g", "2">>,           url |-> "u/hitsong2"],
    [name |-> <<"c", "l", "i", "c", "k", "r", "a", "w">>,           url |-> "u/clickraw"],
    [name |-> <<"C", "l", "i", "c", "k", "R", "a", "w", ".", "p", "n", "g">>,
                                                                    url |-> "u/broken"],
    [name |-> <<"H", "O", "L", "D", "H", "E", "A", "D">>,           url |-> "u/broken"],
    [name |-> <<"h", "o", "l", "d", "b", "o", "d", "y", ".", "p", "n", "g">>,
                                                                    url |-> "u/holdbody"] }

(* The bytes behind each URL: hold components of distinct sizes, a strip of
   31 rows, and bytes that are no image for every other URL. *)
Payload(url) ==
  CASE url = "u/holdend"    -> PngBytes(TestImage(2, 1, 100))
    [] url = "u/hold"       -> PngBytes(TestImage(1, 2, 200))
    [] url = "u/holdhead"   -> PngBytes(TestImage(3, 2, 300))
    [] url = "u/holdhl"     -> PngBytes(TestImage(2, 1, 400))
    [] url = "u/holdheadhl" -> PngBytes(TestImage(1, 3, 500))
    [] url = "u/clickraw"   -> PngBytes(TestImage(1, 31, 0))
    [] OTHER                -> Opaque(url)

(* `res` of a manifest with the given entries *)
ResOf(entries) ==
  [n \in {e.name : e \in entries} |-> (CHOOSE e \in entries : e.name = n).url]

OtherChoices == {S \in SUBSET OtherEntries : Cardinality(S) <= MaxOther}

Manifests ==
  { [name |-> "Demo", author |-> "A", res |-> ResOf(H \cup O)] :
      H \in SUBSET HoldEntries, O \in OtherChoices }

-----------------------------------------------------------------------------
(* load_pt_online_respack: fetch_meta, res_name_parser, download_res,
   save_res, each `?` ending the run with the error. *)

transform_vars == << input, output >>
shadow_vars == << shadow_todo, shadow_urls >>

Init ==
  /\ pc = "fetch_meta"
  /\ remote \in {Ok(m) : m \in Manifests} \cup {Err("ManifestParseError")}
  /\ meta = None
  /\ parse_todo = {} /\ res_urls = << >>
  /\ dl_todo = {} /\ downloaded = << >> /\ to_save = {}
  /\ hold_components = << >>
  /\ files = << >> /\ writes = << >> /\ err = ""
  /\ shadow_todo = {} /\ shadow_urls = << >>
  /\ input = None /\ output = None

(* `?` on an Err: the run ends with it. *)
Fail(e) ==
  /\ pc' = "error"
  /\ err' = e

(* fetch_meta: the GET may fail, and so may response.json(). *)
fetch_meta ==
  /\ pc = "fetch_meta"
  /\ \/ /\ Fail("FetchError")
        /\ UNCHANGED << meta, parse_todo >>
     \/ /\ ~remote.ok
        /\ Fail(remote.val)
        /\ UNCHANGED << meta, parse_todo >>
     \/ /\ remote.ok
        /\ meta' = remote.val
        /\ parse_todo' = DOMAIN remote.val.res
        /\ pc' = "res_name_parser"
        /\ err' = err
  /\ UNCHANGED << remote, res_urls, dl_todo, downloaded, to_save, hold_components,
                  files, writes, shadow_vars, transform_vars >>

(* res_name_parser, one turn of `for (name, url) in res`: a HashMap yields
   its entries in an order of its own. *)
res_name_parser_next ==
  /\ pc = "res_name_parser"
  /\ \E name \in parse_todo :
       /\ res_urls' = res_name_parser_body(res_urls, name, meta.res[name])
       /\ parse_todo' = parse_todo \ {name}
  /\ UNCHANGED << pc, remote, meta, dl_todo, downloaded, to_save, hold_components,
                  files, writes, err, shadow_vars, transform_vars >>

(* res_name_parser returns res_urls, which download_res takes. *)
res_name_parser_return ==
  /\ pc = "res_name_parser"
  /\ parse_todo = {}
  /\ dl_todo' = DOMAIN res_urls
  /\ pc' = "download_res"
  /\ UNCHANGED << remote, meta, parse_todo, res_urls, downloaded, to_save,
                  hold_components, files, writes, err, shadow_vars, transform_vars >>

(* download_file *)
download_file(url) == {Err("FetchError"), Ok(Payload(url))}

(* download_res, one turn of `for (res_type, url) in res_urls`.  The Vec it
   fills is kept as the map role -> content; save_res walks the Vec in the
   order the HashMap gave here, which is any order. *)
download_res_next ==
  /\ pc = "download_res"
  /\ \E res_type \in dl_todo : \E bytes \in download_file(res_urls[res_type]) :
       IF bytes.ok
       THEN /\ downloaded' = insert(downloaded, res_type, bytes.val)
            /\ dl_todo' = dl_todo \ {res_type}
            /\ UNCHANGED << pc, err >>
       ELSE /\ Fail(bytes.val)
            /\ UNCHANGED << downloaded, dl_todo >>
  /\ UNCHANGED << remote, meta, parse_todo, res_urls, to_save, hold_components,
                  files, writes, shadow_vars, transform_vars >>

download_res_return ==
  /\ pc = "download_res"
  /\ dl_todo = {}
  /\ pc' = "save_res"
  /\ UNCHANGED << remote, meta, parse_todo, res_urls, dl_todo, downloaded, to_save,
                  hold_components, files, writes, err, shadow_vars, transform_vars >>

(* ensure_directories, at the head of save_res *)
ensure_directories ==
  /\ pc = "save_res"
  /\ \/ /\ Fail("IOError")
        /\ UNCHANGED to_save
     \/ /\ to_save' = DOMAIN downloaded
        /\ pc' = "save_res_loop"
        /\ err' = err
  /\ UNCHANGED << remote, meta, parse_todo, res_urls, dl_todo, downloaded,
                  hold_components, files, writes, shadow_vars, transform_vars >>

(* Mutant of save_file: its result is dropped, so the run goes on after a
   failed write. *)
save_file_unchecked(path, contents, next_pc) ==
  /\ \/ /\ writes' = Append(writes, [path |-> path, result |-> "create failed"])
        /\ files' = files
     \/ /\ writes' = Append(writes, [path |-> path, result |-> "write failed"])
        /\ files' = insert(files, path, Truncated)
     \/ /\ writes' = Append(writes, [path |-> path, result |-> "ok"])
        /\ files' = insert(files, path, contents)
  /\ pc' = next_pc
  /\ err' = err

(* save_file(path, contents), followed by `?`: File::create may fail; after
   it write_all may fail, which leaves the file created and incomplete.
   Paths are taken relative to the output directory. *)
save_file(path, contents, next_pc) ==
  \/ /\ writes' = Append(writes, [path |-> path, result |-> "create failed"])
     /\ files' = files
     /\ Fail("IOError")
  \/ /\ writes' = Append(writes, [path |-> path, result |-> "write failed"])
     /\ files' = insert(files, path, Truncated)
     /\ Fail("IOError")
  \/ /\ writes' = Append(writes, [path |-> path, result |-> "ok"])
     /\ files' = insert(files, path, contents)
     /\ pc' = next_pc
     /\ err' = err

HoldComponentTypes == {"HoldEnd", "Hold", "HoldHead", "HoldHL", "HoldHeadHL"}

(* save_res, one turn of `for res in &downloads` *)
save_res_next ==
  /\ pc = "save_res_loop"
  /\ \E res_type \in to_save :
       LET content  == downloaded[res_type]
           filename == get_filename(res_type)
       IN  /\ to_save' = to_save \ {res_type}
           /\ IF res_type = Image("HitFX")
              THEN /\ \E processed_data \in hit_fx_convector(content) :
                        IF processed_data.ok
                        THEN save_file(filename, processed_data.val, "save_res_loop")
                        ELSE Fail(processed_data.val) /\ UNCHANGED << files, writes >>
                   /\ UNCHANGED hold_components
              ELSE IF res_type[1] = "Image" /\ res_type[2] \in HoldComponentTypes
              THEN /\ hold_components' = insert(hold_components, res_type[2], content)
                   /\ UNCHANGED << pc, err, files, writes >>
              ELSE /\ save_file(filename, content, "save_res_loop")
                   /\ UNCHANGED hold_components
  /\ UNCHANGED << remote, meta, parse_todo, res_urls, dl_todo, downloaded,
                  shadow_vars, transform_vars >>

save_res_loop_end ==
  /\ pc = "save_res_loop"
  /\ to_save = {}
  /\ pc' = "combine_hold"
  /\ UNCHANGED << remote, meta, parse_todo, res_urls, dl_todo, downloaded, to_save,
                  hold_components, files, writes, err, shadow_vars, transform_vars >>

(* Mutant of has_hold: the body is looked up under the role of the combined
   image, which no download has. *)
has_hold_wrong_key(hold_components_) ==
  /\ contains_key(hold_components_, "HoldEnd")
  /\ contains_key(hold_components_, "CombinedHold")
  /\ contains_key(hold_components_, "HoldHead")

(* The `if let (Some(end), Some(hold), Some(head))` tests of save_res *)
has_hold(hold_components_) ==
  /\ contains_key(hold_components_, "HoldEnd")
  /\ contains_key(hold_components_, "Hold")
  /\ contains_key(hold_components_, "HoldHead")

has_hold_hl(hold_components_) ==
  /\ contains_key(hold_components_, "HoldEnd")
  /\ contains_key(hold_components_, "HoldHL")
  /\ contains_key(hold_components_, "HoldHeadHL")

save_combined_hold ==
  /\ pc = "combine_hold"
  /\ IF has_hold(hold_components)
     THEN \E combined \in combine_hold_images(hold_components["HoldEnd"],
                                              hold_components["Hold"],
                                              hold_components["HoldHead"]) :
            IF combined.ok
            THEN save_file(get_filename(Image("CombinedHold")), combined.val,
                           "combine_hold_hl")
            ELSE Fail(combined.val) /\ UNCHANGED << files, writes >>
     ELSE /\ pc' = "combine_hold_hl"
          /\ UNCHANGED << err, files, writes >>
  /\ UNCHANGED << remote, meta, parse_todo, res_urls, dl_todo, downloaded, to_save,
                  hold_components, shadow_vars, transform_vars >>

save_combined_hold_hl ==
  /\ pc = "combine_hold_hl"
  /\ IF has_hold_hl(hold_components)
     THEN \E combined \in combine_hold_images(hold_components["HoldEnd"],
                                              hold_components["HoldHL"],
                                              hold_components["HoldHeadHL"]) :
            IF combined.ok
            THEN save_file(get_filename(Image("CombinedHoldHL")), combined.val,
                           "respack_info")
            ELSE Fail(combined.val) /\ UNCHANGED << files, writes >>
     ELSE /\ pc' = "respack_info"
          /\ UNCHANGED << err, files, writes >>
  /\ UNCHANGED << remote, meta, parse_todo, res_urls, dl_todo, downloaded, to_save,
                  hold_components, shadow_vars, transform_vars >>

(* generate_respack_info, serde_yaml::to_string and the write of info.yml *)
save_respack_info ==
  /\ pc = "respack_info"
  /\ LET res_info == generate_respack_info(meta, hold_components)
     IN  IF res_info.ok
         THEN save_file("info.yml", YamlBytes(to_yaml(res_info.val)), "done")
         ELSE Fail(res_info.val) /\ UNCHANGED << files, writes >>
  /\ UNCHANGED << remote, meta, parse_todo, res_urls, dl_todo, downloaded, to_save,
                  hold_components, shadow_vars, transform_vars >>

Next ==
  \/ fetch_meta
  \/ res_name_parser_next
  \/ res_name_parser_return
  \/ download_res_next
  \/ download_res_return
  \/ ensure_directories
  \/ save_res_next
  \/ save_res_loop_end
  \/ save_combined_hold
  \/ save_combined_hold_hl
  \/ save_respack_info

Spec == Init /\ [][Next]_vars

-----------------------------------------------------------------------------
(* The name classifier alone: res_name_parser over a manifest of one key,
   the key drawn from the names of the tables and from names of no table,
   each in several spellings. *)

TableNames ==
  {IMAGE_RES_MAPPINGS[i].names[j] : i \in 1..Len(IMAGE_RES_MAPPINGS), j \in 1..2}
    \cup {AUDIO_RES_MAPPINGS[i].names[j] : i \in 1..Len(AUDIO_RES_MAPPINGS), j \in 1..2}

UnknownNames ==
  { << >>,
    <<"t", "a">>,
    <<"t", "a", "p", "p">>,
    <<"t", "a", "p", " ">>,
    <<"t", "a", "p", ".", "o", "g", "g">>,
    <<"h", "i", "t", "s", "o", "n", "g", "0", ".", "p", "n", "g">>,
    <<"h", "i", "t", "s", "o", "n", "g", "3">>,
    <<"h", "o", "l", "d", "b", "o", "d", "y">>,
    <<"c", "l", "i", "c", "k">>,
    <<"h", "o", "l", "d", "_", "m", "h", ".", "p", "n", "g">>,
    <<"i", "n", "f", "o", ".", "y", "m", "l">> }

(* `name` with the letters at the positions of `mask` in upper case *)
Spelling(name, mask) ==
  [i \in 1..Len(name) |->
     IF i \in mask /\ \E k \in 1..Len(LowerAlpha) : LowerAlpha[k] = name[i]
     THEN UpperAlpha[CHOOSE k \in 1..Len(LowerAlpha) : LowerAlpha[k] = name[i]]
     ELSE name[i]]

Masks(name) ==
  SUBSET (1..(IF Len(name) < MaxUpper THEN Len(name) ELSE MaxUpper))
    \cup {1..Len(name)}

InitClassify ==
  /\ pc = "res_name_parser"
  /\ \E base \in TableNames \cup UnknownNames : \E mask \in Masks(base) :
       /\ input = base
       /\ meta = [name |-> "Demo", author |-> "A",
                  res |-> (Spelling(base, mask) :> "u/asset")]
  /\ remote = Ok(meta)
  /\ parse_todo = DOMAIN meta.res /\ res_urls = << >>
  /\ dl_todo = {} /\ downloaded = << >> /\ to_save = {}
  /\ hold_components = << >>
  /\ files = << >> /\ writes = << >> /\ err = ""
  /\ shadow_todo = {} /\ shadow_urls = << >>
  /\ output = None

NextClassify == res_name_parser_next \/ res_name_parser_return

SpecClassify == InitClassify /\ [][NextClassify]_vars

-----------------------------------------------------------------------------
(* res_name_parser run twice over one manifest, each run taking the entries
   in an order of its own. *)

DetManifests ==
  { [name |-> "Demo", author |-> "A", res |-> ResOf(E)] :
      E \in {S \in SUBSET (HoldEntries \cup OtherEntries) :
               Cardinality(S) <= MaxDetEntries} }

InitDet ==
  /\ pc = "res_name_parser"
  /\ meta \in DetManifests
  /\ remote = Ok(meta)
  /\ parse_todo = DOMAIN meta.res /\ res_urls = << >>
  /\ shadow_todo = DOMAIN meta.res /\ shadow_urls = << >>
  /\ dl_todo = {} /\ downloaded = << >> /\ to_save = {}
  /\ hold_components = << >>
  /\ files = << >> /\ writes = << >> /\ err = ""
  /\ input = None /\ output = None

(* one turn of the second run's for loop *)
shadow_res_name_parser_next ==
  /\ pc = "res_name_parser"
  /\ \E name \in shadow_todo :
       /\ shadow_urls' = res_name_parser_body(shadow_urls, name, meta.res[name])
       /\ shadow_todo' = shadow_todo \ {name}
  /\ UNCHANGED << pc, remote, meta, parse_todo, res_urls, dl_todo, downloaded, to_save,
                  hold_components, files, writes, err, transform_vars >>

NextDet == res_name_parser_next \/ shadow_res_name_parser_next

SpecDet == InitDet /\ [][NextDet]_vars

-----------------------------------------------------------------------------
(* The image transforms, each applied to inputs drawn from bounded sets. *)

(* The pipeline's variables while only a transform runs. *)
PipelineIdle ==
  /\ remote = None /\ meta = None
  /\ parse_todo = {} /\ res_urls = << >>
  /\ dl_todo = {} /\ downloaded = << >> /\ to_save = {}
  /\ hold_components = << >>
  /\ files = << >> /\ writes = << >> /\ err = ""
  /\ shadow_todo = {} /\ shadow_urls = << >>

pipeline_vars == << remote, meta, parse_todo, res_urls, dl_todo, downloaded, to_save,
                    hold_components, files, writes, err, shadow_todo, shadow_urls >>

StripInputs ==
  {PngBytes(TestImage(w, h, 0)) : w \in 1..MaxStripW, h \in 1..MaxStripH}
    \cup {Opaque("junk")}

InitHitFx ==
  /\ PipelineIdle
  /\ pc = "hit_fx_convector"
  /\ input \in StripInputs
  /\ output = None

call_hit_fx_convector ==
  /\ pc = "hit_fx_convector"
  /\ \E r \in hit_fx_convector(input) : output' = Some(r)
  /\ pc' = "returned"
  /\ UNCHANGED << input, pipeline_vars >>

SpecHitFx == InitHitFx /\ [][call_hit_fx_convector]_vars

HoldInputs(base) ==
  {PngBytes(TestImage(w, h, base)) : w \in 1..MaxW, h \in 1..MaxH} \cup {Opaque("junk")}

InitCombine ==
  /\ PipelineIdle
  /\ pc = "combine_hold_images"
  /\ input \in HoldInputs(100) \X HoldInputs(200) \X HoldInputs(300)
  /\ output = None

call_combine_hold_images ==
  /\ pc = "combine_hold_images"
  /\ \E r \in combine_hold_images(input[1], input[2], input[3]) : output' = Some(r)
  /\ pc' = "returned"
  /\ UNCHANGED << input, pipeline_vars >>

SpecCombine == InitCombine /\ [][call_combine_hold_images]_vars

-----------------------------------------------------------------------------
(* C7: for a strip of width w and height H, with h = H div 30, the re-tiler
   returns an image of exactly 5w x 6h pixels whose pixel
   ((i mod 5)*w + x, (i div 5)*h + y) is the strip's pixel (x, i*h + y), for
   every frame i < 30, x < w and y < h; every pixel of the output is stored
   exactly once; and it fails on a decodable strip only where the output has
   no pixels (h = 0). *)
C7_HitFxRetiled ==
  (pc = "returned" /\ output # None /\ input.fmt = "png") =>
    LET img   == input.body
        w     == img.w
        h     == img.h \div 30
        r     == output[1]
        calls == hit_fx_calls(img)
    IN  /\ \A p \in Coords(5 * w, 6 * h) :
             Cardinality({k \in 1..Len(calls) :
                            calls[k].dx = p[1] /\ calls[k].dy = p[2]}) = 1
        /\ Len(calls) = 30 * w * h
        /\ (h >= 1) => r.ok
        /\ r.ok =>
             /\ r.val.fmt = "png"
             /\ r.val.body.w = 5 * w
             /\ r.val.body.h = 6 * h
             /\ DOMAIN r.val.body.px = Coords(5 * w, 6 * h)
             /\ \A i \in 0..29 : \A x \in 0..(w - 1) : \A y \in 0..(h - 1) :
                  r.val.body.px[<<(i % 5) * w + x, (i \div 5) * h + y>>]
                    = img.px[<<x, i * h + y>>]

(* A strip whose height is no multiple of 30 and spans two rows per frame
   has been re-tiled. *)
C7_Witness ==
  /\ pc = "returned" /\ output # None /\ input.fmt = "png"
  /\ input.body.h = 61 /\ input.body.w = 2
  /\ output[1].ok /\ output[1].val.body.h = 12

(* C8: for images (end, body, head) the compositor returns an image whose
   width is the largest of the three widths and whose height is the sum of
   the three heights; image s lies at horizontal offset
   floor((width - its width) / 2) and below the images before it; no pixel
   is stored twice; a pixel in no footprint is transparent; equal widths give
   offset zero. *)
C8_Combined ==
  (pc = "returned" /\ output # None
     /\ input[1].fmt = "png" /\ input[2].fmt = "png" /\ input[3].fmt = "png") =>
    LET src   == <<input[1].body, input[2].body, input[3].body>>
        W     == CHOOSE m \in {src[1].w, src[2].w, src[3].w} :
                   \A s \in 1..3 : src[s].w <= m
        top   == <<0, src[1].h, src[1].h + src[2].h>>
        left  == [s \in 1..3 |-> (W - src[s].w) \div 2]
        foot  == [s \in 1..3 |->
                    {<<left[s] + x, top[s] + y>> : x \in 0..(src[s].w - 1),
                                                   y \in 0..(src[s].h - 1)}]
        r     == output[1]
        out   == r.val.body
        calls == combine_calls(src[1], src[2], src[3])
    IN  /\ r.ok
        /\ r.val.fmt = "png"
        /\ out.w = W
        /\ out.h = src[1].h + src[2].h + src[3].h
        /\ DOMAIN out.px = Coords(out.w, out.h)
        /\ \A s \in 1..3 : \A x \in 0..(src[s].w - 1) : \A y \in 0..(src[s].h - 1) :
             out.px[<<left[s] + x, top[s] + y>>] = src[s].px[<<x, y>>]
        /\ \A s \in 1..3 : foot[s] \subseteq DOMAIN out.px
        /\ \A s, u \in 1..3 : s # u => foot[s] \cap foot[u] = {}
        /\ \A p \in DOMAIN out.px :
             /\ Cardinality({k \in 1..Len(calls) :
                               calls[k].dx = p[1] /\ calls[k].dy = p[2]}) <= 1
             /\ (p \notin foot[1] \cup foot[2] \cup foot[3]) => out.px[p] = Transparent
        /\ (src[1].w = src[2].w /\ src[2].w = src[3].w) =>
             \A k \in 1..Len(calls) : calls[k].dx = calls[k].sx

(* Three images of different widths, one centred with an odd difference,
   have been combined. *)
C8_Witness ==
  /\ pc = "returned" /\ output # None
  /\ input[1].fmt = "png" /\ input[2].fmt = "png" /\ input[3].fmt = "png"
  /\ input[1].body.w = 1 /\ input[2].body.w = 2 /\ input[3].body.w = 3
  /\ input[1].body.h = 2
  /\ output[1].ok /\ output[1].val.body.w = 3

-----------------------------------------------------------------------------
(* What the claims read off a state. *)

(* the roles classified from the manifest *)
Classified == DOMAIN res_urls

(* file f exists and save_file completed on it *)
Written(f) == f \in DOMAIN files /\ files[f].fmt # "truncated"

(* the descriptor document in info.yml *)
InfoWritten == "info.yml" \in DOMAIN files /\ files["info.yml"].fmt = "yaml"
Descriptor == files["info.yml"].body

FieldPresent(key) == \E i \in 1..Len(Descriptor) : Descriptor[i][1] = key
FieldIs(key, v) ==
  \E i \in 1..Len(Descriptor) : Descriptor[i][1] = key /\ Descriptor[i][2] = v

(* two byte buffers are the same bytes *)
SameBytes(a, b) == a.fmt = b.fmt /\ a.body = b.body

(* height of the image fetched for an image role *)
FetchedHeight(t) == downloaded[Image(t)].body.h

(* the map without key k *)
Without(map, k) == [x \in DOMAIN map \ {k} |-> map[x]]

(* the fixed target file of every directly persisted role *)
DirectTarget ==
  (Image("Tap") :> "click.png") @@ (Image("TapHL") :> "click_mh.png")
    @@ (Image("Drag") :> "drag.png") @@ (Image("DragHL") :> "drag_mh.png")
    @@ (Image("Flick") :> "flick.png") @@ (Image("FlickHL") :> "flick_mh.png")
    @@ (Audio("TapHitSound") :> "click.ogg") @@ (Audio("DragHitSound") :> "drag.ogg")
    @@ (Audio("FlickHitSound") :> "flick.ogg") @@ (Image("HitFX") :> "hit_fx.png")

OutputNames ==
  {"hit_fx.png", "click.png", "click_mh.png", "drag.png", "drag_mh.png", "flick.png",
   "flick_mh.png", "hold.png", "hold_mh.png", "click.ogg", "drag.ogg", "flick.ogg",
   "info.yml"}

-----------------------------------------------------------------------------
(* C1: in a run that completes, info.yml has the field hitFx, with value
   (5, 6), if and only if a HitFX asset was classified from the manifest,
   i.e. if and only if hit_fx.png was produced. *)
C1_HitFxDeclared ==
  pc = "done" =>
    /\ FieldPresent("hitFx") <=> Image("HitFX") \in Classified
    /\ FieldPresent("hitFx") <=> Written("hit_fx.png")
    /\ FieldPresent("hitFx") => FieldIs("hitFx", <<5, 6>>)

(* C2: in a run that writes info.yml, holdAtlas is present only if hold.png
   was written, holdAtlasMH only if hold_mh.png was written, and hitFx only
   if hit_fx.png was written. *)
C2_DescriptorMatchesFiles ==
  InfoWritten =>
    /\ FieldPresent("holdAtlas") => Written("hold.png")
    /\ FieldPresent("holdAtlasMH") => Written("hold_mh.png")
    /\ FieldPresent("hitFx") => Written("hit_fx.png")

(* C3: the descriptor has holdAtlas if and only if HoldEnd and HoldHead were
   both classified, whether or not Hold was, with value (height of the
   HoldEnd image, height of the HoldHead image); it has holdAtlasMH if and
   only if HoldEnd and HoldHeadHL were both classified, with value (height
   of HoldEnd, height of HoldHeadHL); neither component of a value is the
   height of the combined image. *)
C3_HoldAtlas ==
  InfoWritten =>
    /\ FieldPresent("holdAtlas")
         <=> (Image("HoldEnd") \in Classified /\ Image("HoldHead") \in Classified)
    /\ FieldPresent("holdAtlas") =>
         /\ FieldIs("holdAtlas", <<FetchedHeight("HoldEnd"), FetchedHeight("HoldHead")>>)
         /\ Written("hold.png") =>
              /\ FetchedHeight("HoldEnd") # files["hold.png"].body.h
              /\ FetchedHeight("HoldHead") # files["hold.png"].body.h
    /\ FieldPresent("holdAtlasMH")
         <=> (Image("HoldEnd") \in Classified /\ Image("HoldHeadHL") \in Classified)
    /\ FieldPresent("holdAtlasMH") =>
         /\ FieldIs("holdAtlasMH",
                    <<FetchedHeight("HoldEnd"), FetchedHeight("HoldHeadHL")>>)
         /\ Written("hold_mh.png") =>
              /\ FetchedHeight("HoldEnd") # files["hold_mh.png"].body.h
              /\ FetchedHeight("HoldHeadHL") # files["hold_mh.png"].body.h

(* The descriptor declares holdAtlas though no Hold body was classified. *)
C3_Witness ==
  /\ InfoWritten
  /\ FieldIs("holdAtlas", <<1, 2>>)
  /\ Image("Hold") \notin Classified
  /\ FieldIs("holdAtlasMH", <<1, 3>>)

(* In a completed run each combined output exists exactly if its three
   components were classified. *)
CombinedIffTriple ==
  /\ Written("hold.png")
       <=> {Image("HoldEnd"), Image("Hold"), Image("HoldHead")} \subseteq Classified
  /\ Written("hold_mh.png")
       <=> {Image("HoldEnd"), Image("HoldHL"), Image("HoldHeadHL")} \subseteq Classified
  /\ Written("hold.png") <=> has_hold(hold_components)
  /\ Written("hold_mh.png") <=> has_hold_hl(hold_components)

(* Taking component c away suppresses hold.png and leaves the decision on
   hold_mh.png as it was. *)
RemovalSuppressesOnlyHold(c) ==
  contains_key(hold_components, c) =>
    /\ ~has_hold(Without(hold_components, c))
    /\ has_hold_hl(Without(hold_components, c)) <=> has_hold_hl(hold_components)

(* Taking component c away suppresses hold_mh.png and leaves the decision on
   hold.png as it was. *)
RemovalSuppressesOnlyHoldHL(c) ==
  contains_key(hold_components, c) =>
    /\ ~has_hold_hl(Without(hold_components, c))
    /\ has_hold(Without(hold_components, c)) <=> has_hold(hold_components)

(* C4 as stated: in a completed run hold.png is produced if and only if
   HoldEnd, Hold and HoldHead are all present, hold_mh.png if and only if
   HoldEnd, HoldHL and HoldHeadHL are; and removing any one component of a
   triple suppresses that output without affecting the other one. *)
C4_AnyRemovalLeavesOther ==
  pc = "done" =>
    /\ CombinedIffTriple
    /\ \A c \in {"HoldEnd", "Hold", "HoldHead"} : RemovalSuppressesOnlyHold(c)
    /\ \A c \in {"HoldEnd", "HoldHL", "HoldHeadHL"} : RemovalSuppressesOnlyHoldHL(c)

(* C4 amended: the same, but only the removal of a body or head component
   leaves the other output unaffected; HoldEnd is shared by both triples, so
   removing it suppresses both outputs. *)
C4_CombinedHold ==
  pc = "done" =>
    /\ CombinedIffTriple
    /\ \A c \in {"Hold", "HoldHead"} : RemovalSuppressesOnlyHold(c)
    /\ \A c \in {"HoldHL", "HoldHeadHL"} : RemovalSuppressesOnlyHoldHL(c)
    /\ contains_key(hold_components, "HoldEnd") =>
         /\ ~has_hold(Without(hold_components, "HoldEnd"))
         /\ ~has_hold_hl(Without(hold_components, "HoldEnd"))

(* A run has completed that produced both combined outputs. *)
C4_Witness ==
  /\ pc = "done"
  /\ Written("hold.png") /\ Written("hold_mh.png")
  /\ files["hold.png"].body.h = 5

(* C5: no save_file call targets a path outside the fixed file names and
   info.yml, so no hold component is written as a file of its own; and in a
   completed run the target file of each directly persisted role is written
   if and only if the role was classified, holding, except for hit_fx.png,
   exactly the bytes fetched for the role. *)
C5_DirectFiles ==
  /\ \A i \in 1..Len(writes) : writes[i].path \in OutputNames
  /\ DOMAIN files \subseteq OutputNames
  /\ pc = "done" =>
       \A r \in DOMAIN DirectTarget :
         /\ Written(DirectTarget[r]) <=> r \in Classified
         /\ (r \in Classified /\ r # Image("HitFX")) =>
              /\ SameBytes(files[DirectTarget[r]], downloaded[r])
              /\ SameBytes(files[DirectTarget[r]], Payload(res_urls[r]))

(* A run has completed that wrote click.png and took in hold components. *)
C5_Witness ==
  /\ pc = "done"
  /\ Written("click.png")
  /\ Image("HoldEnd") \in Classified /\ Image("Hold") \in Classified
  /\ Cardinality(DOMAIN files) = 2

(* C6: a key made from a name of a table by writing some of its letters in
   upper case is classified to that table entry's role; a key spelling a
   name of no table gets no role and causes no error; no key gets two
   roles.  tap, Tap, TAP and tap.png all give Tap. *)
C6_Classifier ==
  (pc = "download_res") =>
    /\ Cardinality(Classified) <= 1
    /\ err = ""
    /\ \A i \in 1..Len(IMAGE_RES_MAPPINGS) :
         contains(IMAGE_RES_MAPPINGS[i].names, input)
           => Classified = {Image(IMAGE_RES_MAPPINGS[i].type)}
    /\ \A i \in 1..Len(AUDIO_RES_MAPPINGS) :
         contains(AUDIO_RES_MAPPINGS[i].names, input)
           => Classified = {Audio(AUDIO_RES_MAPPINGS[i].type)}
    /\ input \in UnknownNames => Classified = {}
    /\ DOMAIN meta.res \subseteq { <<"t", "a", "p">>, <<"T", "a", "p">>, <<"T", "A", "P">>,
                                   <<"t", "a", "p", ".", "p", "n", "g">> }
         => Classified = {Image("Tap")}
    /\ \A r \in Classified : res_urls[r] = "u/asset"

(* The key TAP.PNG has been classified. *)
C6_Witness ==
  /\ pc = "download_res"
  /\ DOMAIN meta.res = { <<"T", "A", "P", ".", "P", "N", "G">> }
  /\ Classified = {Image("Tap")}

(* C9: info.yml is written at most once and after every other write; a
   failed save_file is the last one of the run; an error ends the run and
   leaves info.yml unwritten; nothing is written before every fetch has
   succeeded; info.yml is written exactly in the runs that complete. *)
C9_Order ==
  /\ \A i \in 1..Len(writes) :
       /\ writes[i].path = "info.yml" => i = Len(writes)
       /\ writes[i].result # "ok" => i = Len(writes)
  /\ (err # "") <=> (pc = "error")
  /\ (err # "") => ~InfoWritten
  /\ (writes # << >>) =>
       /\ parse_todo = {} /\ dl_todo = {}
       /\ DOMAIN downloaded = DOMAIN res_urls
       /\ \A r \in DOMAIN res_urls : SameBytes(downloaded[r], Payload(res_urls[r]))
  /\ InfoWritten <=> (pc = "done")

(* After an error nothing more is done, and no step removes or changes a
   file written before it. *)
C9_Step ==
  /\ (pc = "error") => UNCHANGED << pc, err, files, writes >>
  /\ \A f \in DOMAIN files : f \in DOMAIN files' /\ SameBytes(files'[f], files[f])
  /\ \A i \in 1..Len(writes) : i <= Len(writes') /\ writes'[i] = writes[i]

(* C9: the order of writes, the end of the run at the first error and the
   absence of rollback. *)
C9_FirstErrorEndsRun == [](C9_Order) /\ [][C9_Step]_vars

(* A run has ended on a failed write after it had written a file, which is
   still there. *)
C9_Witness ==
  /\ pc = "error" /\ err = "IOError"
  /\ Len(writes) = 2
  /\ writes[1].result = "ok" /\ writes[2].result = "write failed"
  /\ Written(writes[1].path)

(* C10: two runs of the classifier over the same manifest end with the same
   role-to-URL map, in whatever order each visited the entries. *)
C10_Deterministic ==
  (parse_todo = {} /\ shadow_todo = {}) => res_urls = shadow_urls

====
